---- MODULE Spec2Model ----
(***************************************************************************)
(* Counting Bloom Filter (counting.go): a packed array of b-bit saturating *)
(* counters and the filter operations Add, Test, TestAndAdd, TestAndRemove *)
(* and Reset, each deriving k bucket indices from one FNV digest by double *)
(* hashing.                                                                *)
(*                                                                         *)
(* Widths are scaled: the digest of the hash object has 2*SeedBits bits    *)
(* (64 in the program), each seed SeedBits bits (32 in the program) and    *)
(* the machine word `uint` 2*SeedBits bits (64 in the program).  The       *)
(* digest is FNV-1 computed modulo 2^(2*SeedBits), which is the low        *)
(* 2*SeedBits bits of the program's 64-bit FNV-1 digest.  Go's uint is 64  *)
(* bits wide on 64-bit builds and 32 bits wide on 32-bit builds: the calls *)
(* are modelled as the 64-bit build runs them, the index expression alone  *)
(* (SpecIndex) for both widths.                                            *)
(*                                                                         *)
(* A false-positive rate is represented by its exponent j, standing for    *)
(* the rate 2^(-j); j = 0 is the rate 1, which lies outside (0,1).         *)
(***************************************************************************)
EXTENDS Integers, Sequences, FiniteSets, TLC

\* ------------------------------------------------------------------ bounds
MaxN == 1         \* capacities n passed to the constructor: 0..MaxN
MaxFpExp == 2     \* false-positive rates 2^(-j), j in 0..MaxFpExp
MaxB == 2         \* bucket widths b passed to the constructor: 1..MaxB
MaxLen == 2       \* longest element, in bytes
MaxAdds == 3      \* Add/TestAndAdd calls between two constructions or resets
SeedBits == 3     \* width of lower and upper (scaled from 32)

\* The bytes elements are made of: the elements are "", "m" and "mm".
Bytes == {109}

RECURSIVE Pow2(_)
Pow2(n) == IF n = 0 THEN 1 ELSE 2 * Pow2(n - 1)

RECURSIVE SeqsOfLen(_)
SeqsOfLen(n) ==
    IF n = 0 THEN {<<>>}
    ELSE {Append(s, c) : s \in SeqsOfLen(n - 1), c \in Bytes}

\* The elements ([]byte values) the operations are called with.
Data == UNION {SeqsOfLen(n) : n \in 0..MaxLen}

SeedMod == Pow2(SeedBits)
HashMod == Pow2(2 * SeedBits)
\* The range of the machine word uint.
UintMod == Pow2(2 * SeedBits)

\* --------------------------------------------------------------- hash/fnv
\* Low 16 bits of the 64-bit FNV offset basis and FNV prime.
offset64 == 8997
prime64 == 435

RECURSIVE Xor(_, _)
Xor(a, c) ==
    IF a = 0 THEN c
    ELSE IF c = 0 THEN a
    ELSE ((a + c) % 2) + 2 * Xor(a \div 2, c \div 2)

\* fnv.New64() and hash.Reset(): the state of a fresh hash object.
HashNew == offset64 % HashMod

\* hash.Write(data) starting from state h: FNV-1, multiply then xor, per byte.
RECURSIVE HashWrite(_, _)
HashWrite(h, data) ==
    IF data = <<>> THEN h
    ELSE HashWrite(Xor((h * (prime64 % HashMod)) % HashMod, Head(data) % HashMod),
                   Tail(data))

\* binary.BigEndian.Uint32(sum[4:8]): the low half of the digest.
Lower(sum) == sum % SeedMod
\* binary.BigEndian.Uint32(sum[0:4]): the high half of the digest.
Upper(sum) == sum \div SeedMod

\* Mutant of hashKernel: the hash object is left as Write left it.
hashKernelNoReset(h, data) ==
    LET sum == HashWrite(h, data)
    IN [lower |-> Lower(sum), upper |-> Upper(sum), hash |-> sum]

\* hashKernel called with the hash object in state h: Write, Sum, Reset.  The
\* seeds come from the digest; the hash object is left as Reset leaves it.
hashKernel(h, data) ==
    LET sum == HashWrite(h, data)
    IN [lower |-> Lower(sum), upper |-> Upper(sum), hash |-> HashNew]

\* The widths uint can have, in bits: that of a seed (32-bit builds) and
\* twice that (64-bit builds).
WordBits == {SeedBits, 2 * SeedBits}

\* (uint(lower) + uint(upper)*i) % c.m, where uint has the range 0..word-1:
\* the product and the sum are each reduced to the word.
IndexIn(word, lower, upper, i, mm) ==
    ((lower + ((upper * i) % word)) % word) % mm

\* The same in the word of the 64-bit build.
Index(lower, upper, i, mm) == IndexIn(UintMod, lower, upper, i, mm)

\* ------------------------------------------------------------ sizing helpers
\* OptimalM(n, fpRate) = ceil(-n * ln(p) / (ln 2)^2); for p = 2^(-j) this is
\* ceil(n * j / ln 2), with 1 / ln 2 = 1.4427 to four places.
OptimalM(n, fp) == (n * fp * 14427 + 9999) \div 10000

\* OptimalK(fpRate) = max(1, round((m/n) * ln 2)); for p = 2^(-j) this is
\* max(1, j).
OptimalK(fp) == IF fp < 1 THEN 1 ELSE fp

\* ---------------------------------------------------------------- Buckets
\* The largest value of a bucket of bb bits.
MaxValue(bb) == Pow2(bb) - 1

\* NewBuckets(m, b) and Buckets.Reset(): mm counters, all zero.
NewBuckets(mm) == [i \in 0..(mm - 1) |-> 0]

\* Buckets.Get(bucket)
Get(bk, idx) == bk[idx]

\* Buckets.Increment(bucket, delta): the sum clamped to [0, 2^bb - 1].
Increment(bk, idx, delta, bb) ==
    LET val == bk[idx] + delta
    IN [bk EXCEPT ![idx] = IF val > MaxValue(bb) THEN MaxValue(bb)
                           ELSE IF val < 0 THEN 0
                           ELSE val]

\* ------------------------------------------------------------------- state
VARIABLES
    constructed,  \* a constructor has returned the filter
    buckets,      \* c.buckets: bucket index -> counter value
    hash,         \* c.hash: the running state of the hash object
    m,            \* c.m
    k,            \* c.k
    b,            \* c.b
    count,        \* c.count
    indexBuffer,  \* c.indexBuffer: sequence of length k (slot i is at i + 1)
    panicked,     \* an operation ended in a run-time panic
    last,         \* the last call: [op, data, ret]
    pre,          \* buckets, count, m, k as they were when the last call began
    base,         \* buckets and count when the call before the last began
    follows,      \* how the last call follows the one before it
    scenario,     \* the calls since construction or Reset, while Add(x), TestAndRemove(x), ...
    kernelOut,    \* the seeds hashKernel returned to the last call
    nAdds,        \* Add and TestAndAdd calls since construction or Reset
    nRemoved,     \* TestAndRemove calls that returned true, since then
    tracked,      \* whether this behaviour keeps net up to date
    net,          \* element -> its Adds not yet undone by a successful removal of it
    saturated,    \* an increment was absorbed by a bucket at its maximum
    onlyAdds,     \* every call since construction or Reset was an Add
    disciplined,  \* every TestAndRemove since then was of an element with net > 0
    tests,        \* goroutine -> the Test call it is running, step by step
    probe         \* the index expression of one operation, evaluated on chosen inputs

filter == <<constructed, buckets, hash, m, k, b, count, indexBuffer, panicked>>
observed == <<last, pre, base, follows, scenario, kernelOut>>
history == <<nAdds, nRemoved, tracked, net, saturated, onlyAdds, disciplined>>
vars == <<filter, observed, history, tests, probe>>

NoCall == [op |-> "none", data |-> <<>>, ret |-> FALSE]
\* What a call records of the state it starts in; the scratch buffer is
\* recorded by the behaviours that do not keep net.
Snapshot == [buckets |-> buckets, count |-> count, m |-> m, k |-> k,
             indexBuffer |-> IF tracked THEN <<>> ELSE indexBuffer]
NoSeeds == [lower |-> 0, upper |-> 0, called |-> FALSE]
NoProbe == [word |-> 0, lower |-> 0, upper |-> 0, mm |-> 0, i |-> 0,
            op |-> "none", idx |-> 0]
ScenarioOff == <<[op |-> "off", data |-> <<>>, ret |-> FALSE]>>

Procs == {1, 2}
Idle == [pc |-> "idle", data |-> <<>>, h |-> 0, sum |-> 0, ret |-> FALSE]

InitFilter ==
    /\ constructed = FALSE
    /\ buckets = NewBuckets(0)
    /\ hash = HashNew
    /\ m = 0
    /\ k = 0
    /\ b = 0
    /\ count = 0
    /\ indexBuffer = <<>>
    /\ panicked = FALSE
    /\ last = NoCall
    /\ pre = Snapshot
    /\ base = Snapshot
    /\ follows = "none"
    /\ scenario = <<>>
    /\ kernelOut = NoSeeds
    /\ nAdds = 0
    /\ nRemoved = 0
    /\ net = [x \in Data |-> 0]
    /\ saturated = FALSE
    /\ onlyAdds = TRUE
    /\ disciplined = TRUE
    /\ tests = [p \in Procs |-> Idle]

Init == tracked = FALSE /\ InitFilter /\ probe = NoProbe

\* The calls since construction or Reset are recorded while they go Add(x),
\* TestAndRemove(x), TestAndRemove(x) for one element x.
InScenario(op, data) ==
    /\ scenario # ScenarioOff
    /\ \/ Len(scenario) = 0 /\ op = "Add"
       \/ Len(scenario) \in {1, 2} /\ op = "TestAndRemove" /\ data = scenario[1].data

\* What every completed call records about itself.
Observe(op, data, ret, how) ==
    /\ last' = [op |-> op, data |-> data, ret |-> ret]
    /\ pre' = Snapshot
    /\ base' = IF how = "none" THEN Snapshot ELSE pre
    /\ follows' = how
    /\ scenario' = IF op = "Reset" THEN <<>>
                   ELSE IF InScenario(op, data)
                        THEN Append(scenario, [op |-> op, data |-> data, ret |-> ret])
                   ELSE ScenarioOff

\* The seeds a call got from hashKernel.
Derived(kernel) ==
    kernelOut' = [lower |-> kernel.lower, upper |-> kernel.upper, called |-> TRUE]

\* ------------------------------------------------------------ constructors
NewCountingBloomFilter(n, bb, fpRate) ==
    /\ ~constructed
    /\ constructed' = TRUE
    /\ m' = OptimalM(n, fpRate)
    /\ k' = OptimalK(fpRate)
    /\ b' = bb
    /\ buckets' = NewBuckets(OptimalM(n, fpRate))
    /\ hash' = HashNew
    /\ count' = 0
    /\ indexBuffer' = [i \in 1..OptimalK(fpRate) |-> 0]
    /\ UNCHANGED <<panicked, observed, history, tests, probe>>

NewDefaultCountingBloomFilter(n, fpRate) == NewCountingBloomFilter(n, 4, fpRate)

\* ------------------------------------------------------- the loops of the operations
\* Mutant of TestLoop: true at the first non-zero bucket.
RECURSIVE TestLoopAnyBucket(_, _, _, _, _, _)
TestLoopAnyBucket(bk, lower, upper, i, kk, mm) ==
    IF i >= kk THEN FALSE
    ELSE IF Get(bk, Index(lower, upper, i, mm)) # 0 THEN TRUE
    ELSE TestLoopAnyBucket(bk, lower, upper, i + 1, kk, mm)

\* Test, lines 83-89: false at the first zero bucket, true after k rounds.
RECURSIVE TestLoop(_, _, _, _, _, _)
TestLoop(bk, lower, upper, i, kk, mm) ==
    IF i >= kk THEN TRUE
    ELSE IF Get(bk, Index(lower, upper, i, mm)) = 0 THEN FALSE
    ELSE TestLoop(bk, lower, upper, i + 1, kk, mm)

\* Mutant of AddLoop: the loop stops one round early.
RECURSIVE AddLoopStopsEarly(_, _, _, _, _, _, _)
AddLoopStopsEarly(bk, lower, upper, i, kk, mm, bb) ==
    IF i + 1 >= kk THEN bk
    ELSE AddLoopStopsEarly(Increment(bk, Index(lower, upper, i, mm), 1, bb),
                           lower, upper, i + 1, kk, mm, bb)

\* Mutant of AddLoop: each round increments the bucket after the derived one.
RECURSIVE AddLoopNextBucket(_, _, _, _, _, _, _)
AddLoopNextBucket(bk, lower, upper, i, kk, mm, bb) ==
    IF i >= kk THEN bk
    ELSE AddLoopNextBucket(Increment(bk, (Index(lower, upper, i, mm) + 1) % mm, 1, bb),
                           lower, upper, i + 1, kk, mm, bb)

\* Add, lines 98-100: the buckets after the k increments.
RECURSIVE AddLoop(_, _, _, _, _, _, _)
AddLoop(bk, lower, upper, i, kk, mm, bb) ==
    IF i >= kk THEN bk
    ELSE AddLoop(Increment(bk, Index(lower, upper, i, mm), 1, bb),
                 lower, upper, i + 1, kk, mm, bb)

\* Mutant of TestAndAddLoop: each round increments the bucket, then reads it.
RECURSIVE TestAndAddLoopReadsLate(_, _, _, _, _, _, _, _)
TestAndAddLoopReadsLate(bk, member, lower, upper, i, kk, mm, bb) ==
    IF i >= kk THEN [buckets |-> bk, member |-> member]
    ELSE LET idx == Index(lower, upper, i, mm)
         IN TestAndAddLoopReadsLate(
                Increment(bk, idx, 1, bb),
                IF Get(Increment(bk, idx, 1, bb), idx) = 0 THEN FALSE ELSE member,
                lower, upper, i + 1, kk, mm, bb)

\* Mutant of TestAndAddLoop: a round increments the bucket only where it
\* found it zero.
RECURSIVE TestAndAddLoopAddsIfZero(_, _, _, _, _, _, _, _)
TestAndAddLoopAddsIfZero(bk, member, lower, upper, i, kk, mm, bb) ==
    IF i >= kk THEN [buckets |-> bk, member |-> member]
    ELSE LET idx == Index(lower, upper, i, mm)
         IN IF Get(bk, idx) = 0
            THEN TestAndAddLoopAddsIfZero(Increment(bk, idx, 1, bb), FALSE,
                                          lower, upper, i + 1, kk, mm, bb)
            ELSE TestAndAddLoopAddsIfZero(bk, member, lower, upper, i + 1, kk, mm, bb)

\* TestAndAdd, lines 113-119: each round reads the bucket, then increments it.
RECURSIVE TestAndAddLoop(_, _, _, _, _, _, _, _)
TestAndAddLoop(bk, member, lower, upper, i, kk, mm, bb) ==
    IF i >= kk THEN [buckets |-> bk, member |-> member]
    ELSE LET idx == Index(lower, upper, i, mm)
         IN TestAndAddLoop(Increment(bk, idx, 1, bb),
                           IF Get(bk, idx) = 0 THEN FALSE ELSE member,
                           lower, upper, i + 1, kk, mm, bb)

\* Mutant of StageLoop: a zero bucket does not clear member.
RECURSIVE StageLoopIgnoresZero(_, _, _, _, _, _, _, _)
StageLoopIgnoresZero(bk, buf, member, lower, upper, i, kk, mm) ==
    IF i >= kk THEN [indexBuffer |-> buf, member |-> member]
    ELSE StageLoopIgnoresZero(bk, [buf EXCEPT ![i + 1] = Index(lower, upper, i, mm)],
                              member, lower, upper, i + 1, kk, mm)

\* Mutant of StageLoop: the slot of the first round keeps what it held.
RECURSIVE StageLoopKeepsFirstSlot(_, _, _, _, _, _, _, _)
StageLoopKeepsFirstSlot(bk, buf, member, lower, upper, i, kk, mm) ==
    IF i >= kk THEN [indexBuffer |-> buf, member |-> member]
    ELSE LET idx == Index(lower, upper, i, mm)
         IN StageLoopKeepsFirstSlot(bk,
                                    IF i = 0 THEN buf ELSE [buf EXCEPT ![i + 1] = idx],
                                    IF Get(bk, idx) = 0 THEN FALSE ELSE member,
                                    lower, upper, i + 1, kk, mm)

\* TestAndRemove, lines 132-137: each round stores the index in slot i of the
\* buffer and reads the bucket.
RECURSIVE StageLoop(_, _, _, _, _, _, _, _)
StageLoop(bk, buf, member, lower, upper, i, kk, mm) ==
    IF i >= kk THEN [indexBuffer |-> buf, member |-> member]
    ELSE LET idx == Index(lower, upper, i, mm)
         IN StageLoop(bk, [buf EXCEPT ![i + 1] = idx],
                      IF Get(bk, idx) = 0 THEN FALSE ELSE member,
                      lower, upper, i + 1, kk, mm)

\* Mutant of RemoveLoop: the first slot of the buffer is skipped.
RECURSIVE RemoveLoopSkipsSlot(_, _, _, _)
RemoveLoopSkipsSlot(bk, buf, j, bb) ==
    IF j >= Len(buf) THEN bk
    ELSE RemoveLoopSkipsSlot(Increment(bk, buf[j + 1], -1, bb), buf, j + 1, bb)

\* TestAndRemove, lines 140-142: one decrement per slot of the buffer, from
\* slot j on.
RECURSIVE RemoveLoop(_, _, _, _)
RemoveLoop(bk, buf, j, bb) ==
    IF j > Len(buf) THEN bk
    ELSE RemoveLoop(Increment(bk, buf[j], -1, bb), buf, j + 1, bb)

\* Mutant of RemoveIfMember: the decrements happen whatever the test found.
RemoveAlways(bk, buf, member, bb) == RemoveLoop(bk, buf, 1, bb)

\* TestAndRemove, lines 139-144: the decrements happen only for a member.
RemoveIfMember(bk, buf, member, bb) ==
    IF member THEN RemoveLoop(bk, buf, 1, bb) ELSE bk

\* The sum of all counters.
RECURSIVE Total(_, _)
Total(bk, mm) == IF mm = 0 THEN 0 ELSE bk[mm - 1] + Total(bk, mm - 1)

\* A call on a filter with m = 0 divides by zero in its first round.
DividesByZero == k > 0 /\ m = 0

Panic(kernel) ==
    /\ panicked' = TRUE
    /\ hash' = kernel.hash
    /\ UNCHANGED <<constructed, buckets, m, k, b, count, indexBuffer>>
    /\ UNCHANGED <<observed, history, tests, probe>>

\* No call runs on a filter that has panicked, nor while a goroutine is inside Test.
Ready ==
    /\ constructed
    /\ ~panicked
    /\ \A p \in Procs : tests[p].pc = "idle"

\* ------------------------------------- what a call alone would do in a state
\* The seeds hashKernel derives for data when the hash object is fresh.
SeedTable == [d \in Data |-> hashKernel(HashNew, d)]
Seeds(data) == SeedTable[data]

\* What Test(data) returns on buckets bk.
TestResult(bk, data) == TestLoop(bk, Seeds(data).lower, Seeds(data).upper, 0, k, m)

\* The buckets Add(data) leaves, started on buckets bk.
AddResult(bk, data) == AddLoop(bk, Seeds(data).lower, Seeds(data).upper, 0, k, m, b)

\* The k bucket indices of data, as a set.
IndexSet(data) == {Index(Seeds(data).lower, Seeds(data).upper, i, m) : i \in 0..(k - 1)}

\* The number of the k rounds of data that fall on bucket idx.
Hits(data, idx) ==
    Cardinality({i \in 0..(k - 1) :
                    Index(Seeds(data).lower, Seeds(data).upper, i, m) = idx})

\* Some increment of Add(data) or TestAndAdd(data), started on buckets bk,
\* meets a bucket at its maximum.
Saturates(bk, data) ==
    \E idx \in IndexSet(data) : bk[idx] + Hits(data, idx) > MaxValue(b)

\* -------------------------------------------------------------- operations
Test(data) ==
    /\ Ready
    /\ UNCHANGED probe
    /\ LET kernel == hashKernel(hash, data)
       IN IF DividesByZero THEN Panic(kernel)
          ELSE /\ hash' = kernel.hash
               /\ Derived(kernel)
               /\ Observe("Test", data,
                          TestLoop(buckets, kernel.lower, kernel.upper, 0, k, m),
                          "none")
               /\ onlyAdds' = FALSE
               /\ UNCHANGED <<constructed, buckets, m, k, b, count, indexBuffer,
                              panicked, nAdds, nRemoved, tracked, net, saturated,
                              disciplined, tests>>

Add(data) ==
    /\ Ready
    /\ UNCHANGED probe
    /\ nAdds < MaxAdds
    /\ LET kernel == hashKernel(hash, data)
       IN IF DividesByZero THEN Panic(kernel)
          ELSE LET after == AddLoop(buckets, kernel.lower, kernel.upper, 0, k, m, b)
               IN /\ hash' = kernel.hash
                  /\ Derived(kernel)
                  /\ buckets' = after
                  /\ count' = (count + 1) % UintMod
                  /\ Observe("Add", data, FALSE, "none")
                  /\ nAdds' = nAdds + 1
                  /\ net' = IF tracked THEN [net EXCEPT ![data] = @ + 1] ELSE net
                  /\ saturated' = (saturated \/ Saturates(buckets, data))
                  /\ UNCHANGED <<constructed, m, k, b, indexBuffer, panicked,
                                 nRemoved, tracked, onlyAdds, disciplined, tests>>

TestAndAdd(data) ==
    /\ Ready
    /\ UNCHANGED probe
    /\ nAdds < MaxAdds
    /\ LET kernel == hashKernel(hash, data)
       IN IF DividesByZero THEN Panic(kernel)
          ELSE LET res == TestAndAddLoop(buckets, TRUE, kernel.lower, kernel.upper,
                                         0, k, m, b)
               IN /\ hash' = kernel.hash
                  /\ Derived(kernel)
                  /\ buckets' = res.buckets
                  /\ count' = (count + 1) % UintMod
                  /\ Observe("TestAndAdd", data, res.member, "none")
                  /\ nAdds' = nAdds + 1
                  /\ net' = IF tracked THEN [net EXCEPT ![data] = @ + 1] ELSE net
                  /\ saturated' = (saturated \/ Saturates(buckets, data))
                  /\ onlyAdds' = FALSE
                  /\ UNCHANGED <<constructed, m, k, b, indexBuffer, panicked, nRemoved,
                                 tracked, disciplined, tests>>

TestAndRemove(data) ==
    /\ Ready
    /\ UNCHANGED probe
    /\ LET kernel == hashKernel(hash, data)
       IN IF DividesByZero THEN Panic(kernel)
          ELSE LET staged == StageLoop(buckets, indexBuffer, TRUE, kernel.lower,
                                       kernel.upper, 0, k, m)
               IN /\ hash' = kernel.hash
                  /\ Derived(kernel)
                  /\ indexBuffer' = staged.indexBuffer
                  /\ buckets' = RemoveIfMember(buckets, staged.indexBuffer,
                                                staged.member, b)
                  /\ count' = IF staged.member THEN (count - 1) % UintMod ELSE count
                  /\ Observe("TestAndRemove", data, staged.member,
                             IF last.op = "Add" /\ last.data = data
                             THEN "AddSame" ELSE "none")
                  /\ nRemoved' = IF staged.member THEN nRemoved + 1 ELSE nRemoved
                  /\ net' = IF tracked /\ staged.member /\ net[data] > 0
                            THEN [net EXCEPT ![data] = @ - 1] ELSE net
                  /\ onlyAdds' = FALSE
                  /\ disciplined' = IF tracked THEN disciplined /\ net[data] > 0
                                    ELSE disciplined
                  /\ UNCHANGED <<constructed, m, k, b, panicked, nAdds, tracked, saturated,
                                 tests>>

\* Mutant of Reset: the buckets are zeroed and the count is kept.
ResetKeepsCount ==
    /\ Ready
    /\ UNCHANGED probe
    /\ kernelOut' = NoSeeds
    /\ buckets' = NewBuckets(m)
    /\ count' = count
    /\ Observe("Reset", <<>>, FALSE, IF last.op = "Reset" THEN "Reset" ELSE "none")
    /\ nAdds' = 0
    /\ nRemoved' = 0
    /\ net' = [x \in Data |-> 0]
    /\ saturated' = FALSE
    /\ onlyAdds' = TRUE
    /\ disciplined' = TRUE
    /\ UNCHANGED <<constructed, hash, m, k, b, indexBuffer, panicked, tracked, tests>>

Reset ==
    /\ Ready
    /\ UNCHANGED probe
    /\ kernelOut' = NoSeeds
    /\ buckets' = NewBuckets(m)
    /\ count' = 0
    /\ Observe("Reset", <<>>, FALSE, IF last.op = "Reset" THEN "Reset" ELSE "none")
    /\ nAdds' = 0
    /\ nRemoved' = 0
    /\ net' = [x \in Data |-> 0]
    /\ saturated' = FALSE
    /\ onlyAdds' = TRUE
    /\ disciplined' = TRUE
    /\ UNCHANGED <<constructed, hash, m, k, b, indexBuffer, panicked, tracked, tests>>

Capacities == 0..MaxN
FpRates == 0..MaxFpExp
BucketWidths == 1..MaxB

Next ==
    \/ \E n \in Capacities, bb \in BucketWidths, fp \in FpRates :
          NewCountingBloomFilter(n, bb, fp)
    \/ \E n \in Capacities, fp \in FpRates : NewDefaultCountingBloomFilter(n, fp)
    \/ \E data \in Data : Test(data)
    \/ \E data \in Data : Add(data)
    \/ \E data \in Data : TestAndAdd(data)
    \/ \E data \in Data : TestAndRemove(data)
    \/ Reset

Spec == Init /\ [][Next]_vars

\* ------------------------------------------- the same calls, with net kept
\* Test is left to Spec: it writes no field of the filter but the hash object,
\* which it leaves as it found it.
InitLive == tracked = TRUE /\ InitFilter /\ probe = NoProbe

NextLive ==
    \/ \E n \in Capacities, bb \in BucketWidths, fp \in FpRates :
          NewCountingBloomFilter(n, bb, fp)
    \/ \E n \in Capacities, fp \in FpRates : NewDefaultCountingBloomFilter(n, fp)
    \/ \E data \in Data : Add(data)
    \/ \E data \in Data : TestAndAdd(data)
    \/ \E data \in Data : TestAndRemove(data)
    \/ Reset

SpecLive == InitLive /\ [][NextLive]_vars

\* ------------------------------------------------ Test calls that interleave
\* One goroutine's Test, step by step.  hashKernel runs hash.Write, which
\* copies the state of the shared hash object, folds the data into the copy
\* and stores it back; then hash.Sum, which reads the state; then hash.Reset.
Step(p, pc, h, sum, ret) ==
    tests' = [tests EXCEPT ![p] = [pc |-> pc, data |-> tests[p].data,
                                   h |-> h, sum |-> sum, ret |-> ret]]

TestBegin(p, data) ==
    /\ constructed
    /\ ~panicked
    /\ tests[p].pc = "idle"
    /\ tests' = [tests EXCEPT ![p] = [Idle EXCEPT !.pc = "read", !.data = data]]
    /\ UNCHANGED <<filter, observed, history, probe>>

\* Write, first half: hash := *s
TestWriteLoad(p) ==
    /\ tests[p].pc = "read"
    /\ Step(p, "write", hash, 0, FALSE)
    /\ UNCHANGED <<filter, observed, history, probe>>

\* Write, second half: *s = hash, after the loop over the bytes
TestWriteStore(p) ==
    /\ tests[p].pc = "write"
    /\ hash' = HashWrite(tests[p].h, tests[p].data)
    /\ Step(p, "sum", 0, 0, FALSE)
    /\ UNCHANGED <<constructed, buckets, m, k, b, count, indexBuffer, panicked>>
    /\ UNCHANGED <<observed, history, probe>>

TestSum(p) ==
    /\ tests[p].pc = "sum"
    /\ Step(p, "reset", 0, hash, FALSE)
    /\ UNCHANGED <<filter, observed, history, probe>>

TestHashReset(p) ==
    /\ tests[p].pc = "reset"
    /\ hash' = HashNew
    /\ Step(p, "loop", 0, tests[p].sum, FALSE)
    /\ UNCHANGED <<constructed, buckets, m, k, b, count, indexBuffer, panicked>>
    /\ UNCHANGED <<observed, history, probe>>

\* The loop of Test reads buckets only, and no call that writes them is running.
TestRounds(p) ==
    /\ tests[p].pc = "loop"
    /\ IF DividesByZero
       THEN /\ panicked' = TRUE
            /\ Step(p, "idle", 0, 0, FALSE)
       ELSE /\ Step(p, "done", 0, 0,
                    TestLoop(buckets, Lower(tests[p].sum), Upper(tests[p].sum), 0, k, m))
            /\ UNCHANGED panicked
    /\ UNCHANGED <<constructed, buckets, hash, m, k, b, count, indexBuffer>>
    /\ UNCHANGED <<observed, history, probe>>

TestReturn(p) ==
    /\ tests[p].pc = "done"
    /\ tests' = [tests EXCEPT ![p] = Idle]
    /\ UNCHANGED <<filter, observed, history, probe>>

NextRace ==
    \/ \E n \in Capacities, bb \in BucketWidths, fp \in FpRates :
          NewCountingBloomFilter(n, bb, fp)
    \/ \E data \in Data : Add(data)
    \/ \E p \in Procs, data \in Data : TestBegin(p, data)
    \/ \E p \in Procs : TestWriteLoad(p)
    \/ \E p \in Procs : TestWriteStore(p)
    \/ \E p \in Procs : TestSum(p)
    \/ \E p \in Procs : TestHashReset(p)
    \/ \E p \in Procs : TestRounds(p)
    \/ \E p \in Procs : TestReturn(p)

SpecRace == Init /\ [][NextRace]_vars

\* ------------------------------------- the index expression, on any seeds
\* The index the loop of one operation computes in round i, for seeds, a
\* bucket count and a width of uint chosen at the start.
ProbeInputs ==
    {[NoProbe EXCEPT !.word = Pow2(w), !.lower = lo, !.upper = up, !.mm = mm] :
        w \in WordBits, lo \in 0..(SeedMod - 1), up \in 0..(SeedMod - 1),
        mm \in 1..OptimalM(MaxN, MaxFpExp)}

Rounds == 0..(OptimalK(MaxFpExp) - 1)

InitIndex == tracked = FALSE /\ InitFilter /\ probe \in ProbeInputs

Probe(op, i) ==
    /\ probe' = [probe EXCEPT !.op = op, !.i = i,
                              !.idx = IndexIn(probe.word, probe.lower, probe.upper,
                                              i, probe.mm)]
    /\ UNCHANGED <<filter, observed, history, tests>>

\* Test, line 84
TestIndex(i) == Probe("Test", i)
\* Add, line 99
AddIndex(i) == Probe("Add", i)
\* TestAndAdd, line 114
TestAndAddIndex(i) == Probe("TestAndAdd", i)
\* TestAndRemove, line 133
TestAndRemoveIndex(i) == Probe("TestAndRemove", i)

NextIndex ==
    \/ \E i \in Rounds : TestIndex(i)
    \/ \E i \in Rounds : AddIndex(i)
    \/ \E i \in Rounds : TestAndAddIndex(i)
    \/ \E i \in Rounds : TestAndRemoveIndex(i)

SpecIndex == InitIndex /\ [][NextIndex]_vars

\* ===================================================================
\* Properties
\* ===================================================================

\* C1: after a sequence of Add calls only, none of which was absorbed by a
\* bucket at its maximum, Test(x) is true for every element x that was added.
C1_NoFalseNegativeAfterAdds ==
    (constructed /\ onlyAdds /\ ~saturated) =>
        \A x \in Data : net[x] > 0 => TestResult(buckets, x)

\* C1 witness: two different elements were added to a filter with k >= 2 and
\* nothing saturated.
C1_Witness ==
    /\ onlyAdds /\ ~saturated /\ k >= 2
    /\ \E x, y \in Data : x # y /\ net[x] > 0 /\ net[y] > 0

\* C2: TestAndAdd(x) returns what Test(x) returns in the state it starts in,
\* and leaves the buckets and the count that Add(x) leaves.
C2_TestAndAddIsTestThenAdd ==
    last.op = "TestAndAdd" =>
        /\ last.ret = TestResult(pre.buckets, last.data)
        /\ buckets = AddResult(pre.buckets, last.data)
        /\ count = (pre.count + 1) % UintMod

\* C2 witness: TestAndAdd(x) ran where two of x's k indices are the same
\* bucket, which was zero: the second round read it after the first raised it.
C2_Witness ==
    /\ last.op = "TestAndAdd"
    /\ k >= 2
    /\ Cardinality(IndexSet(last.data)) < k
    /\ \E i \in IndexSet(last.data) : pre.buckets[i] = 0 /\ buckets[i] > 0

\* C3: a TestAndRemove that returns false leaves every bucket and the count
\* as they were.
C3_FailedRemoveChangesNothing ==
    (last.op = "TestAndRemove" /\ ~last.ret) =>
        (buckets = pre.buckets /\ count = pre.count)

\* C3 witness: TestAndRemove(x) returned false although one of x's buckets
\* was non-zero.
C3_Witness ==
    /\ last.op = "TestAndRemove"
    /\ ~last.ret
    /\ \E i \in IndexSet(last.data) : pre.buckets[i] > 0

\* No live element other than x has all of x's buckets among its own.
NoOtherSharesAll(x) ==
    \A y \in Data \ {x} : net[y] > 0 => ~(IndexSet(x) \subseteq IndexSet(y))

\* The last call was TestAndRemove(x) and the call before it Add(x): base is
\* the state before the Add, pre the state between the two.
AddThenRemove == follows = "AddSame"

Restored ==
    /\ last.ret
    /\ \A i \in IndexSet(last.data) : buckets[i] = base.buckets[i]
    /\ count = base.count

\* C4 as stated: where no other element shares all k of x's buckets, Add(x)
\* followed at once by TestAndRemove(x) returns true and restores x's buckets
\* and the count.
C4_AddRemoveInverse_AsStated ==
    (AddThenRemove /\ NoOtherSharesAll(last.data)) => Restored

\* C4 amended: the same, provided the Add raised each of x's buckets, that
\* is, none of the k increments met a bucket at its maximum.
C4_AddRemoveInverse ==
    (/\ AddThenRemove
     /\ NoOtherSharesAll(last.data)
     /\ ~Saturates(base.buckets, last.data)) => Restored

\* C4 witness: Add(x) then TestAndRemove(x) with no saturation, in a filter
\* where another live element shares some but not all of x's buckets.
C4_Witness ==
    /\ AddThenRemove
    /\ NoOtherSharesAll(last.data)
    /\ ~Saturates(base.buckets, last.data)
    /\ \E y \in Data \ {last.data} :
          net[y] > 0 /\ IndexSet(y) \cap IndexSet(last.data) # {}

\* C5: after Reset the count is 0, every bucket is zero and Test(x) is false
\* for every x; a Reset right after a Reset leaves the state the first left.
C5_ResetEmptiesAndIsIdempotent ==
    last.op = "Reset" =>
        /\ count = 0
        /\ buckets = NewBuckets(m)
        /\ m > 0 => \A x \in Data : ~TestResult(buckets, x)
        /\ follows = "Reset" => (buckets = pre.buckets /\ count = pre.count)

\* C5 witness: two Resets in a row, the first on a filter that held elements.
C5_Witness ==
    /\ last.op = "Reset"
    /\ follows = "Reset"
    /\ base.count > 0
    /\ Total(base.buckets, m) > 0

\* C6: on a new or just reset filter, Add(x) makes Test(x) true and the count
\* 1; TestAndRemove(x) then returns true and leaves the count 0 and every
\* bucket zero; a second TestAndRemove(x) returns false and leaves the count 0.
C6_AddRemoveRemoveScenario ==
    (scenario # ScenarioOff /\ Len(scenario) >= 1) =>
        /\ Len(scenario) = 1 =>
              (TestResult(buckets, scenario[1].data) /\ count = 1)
        /\ Len(scenario) = 2 =>
              (scenario[2].ret /\ count = 0 /\ buckets = NewBuckets(m))
        /\ Len(scenario) = 3 => (~scenario[3].ret /\ count = 0)

\* C6 witness: the three calls were made, on a filter of one-bit buckets and
\* for an element whose k indices repeat.
C6_Witness ==
    /\ scenario # ScenarioOff
    /\ Len(scenario) = 3
    /\ b = 1
    /\ Cardinality(IndexSet(scenario[1].data)) < k

\* C7: the count is the number of Add and TestAndAdd calls minus the number
\* of TestAndRemove calls that returned true, since construction or Reset.
C7_CountIsAddsMinusRemovals == count = nAdds - nRemoved

\* C9: Test(x) changes neither buckets, count, m nor k, and returns true
\* exactly when all k buckets at x's indices are non-zero.
C9_TestIsPure ==
    last.op = "Test" =>
        /\ buckets = pre.buckets
        /\ count = pre.count
        /\ m = pre.m
        /\ k = pre.k
        /\ last.ret = (\A i \in IndexSet(last.data) : buckets[i] # 0)

\* C9 witness: Test(x) returned false where x's first bucket was non-zero, so
\* the loop ran past its first round.
C9_Witness ==
    /\ last.op = "Test"
    /\ ~last.ret
    /\ k >= 2
    /\ buckets[Index(Seeds(last.data).lower, Seeds(last.data).upper, 0, m)] # 0

\* C10: no constructor returns a filter with m = 0.
C10_NoDegenerateFilter == constructed => m >= 1

\* C8: a Test that interleaves with other Tests only returns what it returns
\* when it runs alone in that state of the filter.
C8_RacingTestsAgree ==
    \A p \in Procs :
        tests[p].pc = "done" => tests[p].ret = TestResult(buckets, tests[p].data)

\* C11: on a filter a constructor returned, no call of Add, Test, TestAndAdd,
\* TestAndRemove or Reset fails: no call panics, the scratch buffer has k
\* slots, and the indices TestAndRemove stored in it are below m.
C11_OperationsNeverFail ==
    constructed =>
        /\ ~panicked
        /\ Len(indexBuffer) = k
        /\ last.op = "TestAndRemove" =>
              \A j \in 1..Len(indexBuffer) : indexBuffer[j] < m

\* C12: while no increment was absorbed by a bucket at its maximum and every
\* TestAndRemove was of an element with more Adds than successful removals,
\* every such element tests true and each such TestAndRemove returned true.
C12_NoFalseNegativeDisciplined ==
    (constructed /\ ~saturated /\ disciplined) =>
        /\ \A x \in Data : net[x] > 0 => TestResult(buckets, x)
        /\ last.op = "TestAndRemove" => last.ret

\* C12 witness: such a TestAndRemove(y) ran while another element that shares
\* a bucket with y was in the filter, and lowered that bucket.
C12_Witness ==
    /\ ~saturated /\ disciplined
    /\ last.op = "TestAndRemove" /\ last.ret
    /\ \E x \in Data \ {last.data} :
          /\ net[x] > 0
          /\ IndexSet(x) \cap IndexSet(last.data) # {}
          /\ \E i \in IndexSet(x) : buckets[i] < pre.buckets[i]

C13_CountNeverWraps ==
    (last.op = "TestAndRemove" /\ last.ret) => pre.count >= 1

\* C15: every bucket holds a value in 0..2^b - 1; an Add or TestAndAdd leaves
\* a bucket it found at the maximum at the maximum and changes no bucket
\* outside the k indices of its element.
C15_BucketsStayInRange ==
    constructed =>
        /\ \A i \in 0..(m - 1) : buckets[i] \in 0..MaxValue(b)
        /\ last.op \in {"Add", "TestAndAdd"} =>
              \A i \in 0..(m - 1) :
                 /\ i \notin IndexSet(last.data) => buckets[i] = pre.buckets[i]
                 /\ (i \in IndexSet(last.data) /\ pre.buckets[i] = MaxValue(b)) =>
                       buckets[i] = MaxValue(b)

\* C15 witness: an Add or TestAndAdd met a bucket at its maximum while a
\* bucket outside its element's indices was non-zero.
C15_Witness ==
    /\ last.op \in {"Add", "TestAndAdd"}
    /\ \E i \in IndexSet(last.data) : pre.buckets[i] = MaxValue(b)
    /\ \E i \in (0..(m - 1)) \ IndexSet(last.data) : pre.buckets[i] > 0

\* The buckets TestAndRemove(data) leaves when it returns true, started on bk:
\* each lowered by the rounds of data that fall on it, not below zero.
Lowered(bk, data) ==
    [i \in 0..(m - 1) |->
        IF bk[i] > Hits(data, i) THEN bk[i] - Hits(data, i) ELSE 0]

\* C16: a TestAndRemove(x) that returns true lowers each bucket by the number
\* of x's k rounds that fall on it, not below zero, and so leaves every other
\* bucket alone; the scratch buffer then holds the k indices of x, whatever
\* it held before.
C16_RemoveTouchesOnlyOwnBuckets ==
    (last.op = "TestAndRemove" /\ last.ret) =>
        /\ buckets = Lowered(pre.buckets, last.data)
        /\ indexBuffer = [j \in 1..k |->
                             Index(Seeds(last.data).lower, Seeds(last.data).upper,
                                   j - 1, m)]

\* C16 witness: TestAndRemove(x) returned true where the scratch buffer held,
\* from an earlier call, the index of a non-zero bucket that is none of x's.
C16_Witness ==
    /\ last.op = "TestAndRemove" /\ last.ret
    /\ \E j \in 1..k :
          /\ pre.indexBuffer[j] \notin IndexSet(last.data)
          /\ pre.buckets[pre.indexBuffer[j]] > 0

\* C17: in every operation the index of round i is (lower + upper*i) mod m,
\* the sum and the product taken in the integers.
C17_IndexIsExact ==
    probe.op # "none" =>
        probe.idx = (probe.lower + probe.upper * probe.i) % probe.mm

\* C18: between calls the hash object is in its initial state, and the seeds
\* a call gets for its element are those a fresh hash object gives.
C18_KernelLeavesHashFresh ==
    /\ hash = HashNew
    /\ kernelOut.called =>
          /\ kernelOut.lower = Lower(HashWrite(HashNew, last.data))
          /\ kernelOut.upper = Upper(HashWrite(HashNew, last.data))

\* C18 witness: a Test of a non-empty element ran after two calls that
\* hashed other bytes, and found its element absent.
C18_Witness ==
    /\ kernelOut.called
    /\ last.op = "Test" /\ ~last.ret
    /\ Len(last.data) > 0
    /\ nAdds >= 2
    /\ \E x \in Data \ {last.data} : TestResult(buckets, x)

====
